---- MODULE Spec2Model ----
(***************************************************************************)
(* Model of SearchFile.search of uvm_message_search.py: the single-pass    *)
(* scan that segments a log into message blocks, keeps a history of the    *)
(* most recent blocks, and emits matched blocks with their context.        *)
(*                                                                         *)
(* A string is modelled as a sequence of lexemes (a marker prefix, a       *)
(* severity word, a search word, a white-space character, an escape        *)
(* sequence, a digit).  str.startswith is the prefix test, `in` is the     *)
(* contiguous-subsequence test and str.lower maps every lexeme to its      *)
(* lower-case form.                                                        *)
(***************************************************************************)
EXTENDS Integers, Sequences, FiniteSets, TLC

(***************************************************************************)
(* Bounds of the model.                                                    *)
(***************************************************************************)
MaxLines   == 5     \* longest source, in lines
MaxContext == 2     \* largest SEARCH_CONTEXT
MaxHead    == 3     \* most lines before the end of test message, when a tail follows
MaxTail    == 6     \* most lines following the end of test message
MaxNegative == 2    \* most negative SEARCH_CONTEXT is -MaxNegative
MaxKey     == 12    \* search_frame_next stops growing here

(***************************************************************************)
(* Global attributes (module level constants of the program).              *)
(***************************************************************************)
NL  == "\n"
SP  == " "
ESC == "ESC[0m"

SEPERATION  == <<"...">>
END_OF_TEST == <<"# --- UVM Report Summary ---">>
UVM_MESSAGE == <<"# UVM_">>
UVM_WARNING == <<"# UVM_", "WARNING">>
UVM_ERROR   == <<"# UVM_", "ERROR">>
UVM_FATAL   == <<"# UVM_", "FATAL">>

(***************************************************************************)
(* String primitives.                                                      *)
(***************************************************************************)
LowerLexeme(t) ==
    CASE t = "# UVM_"                       -> "# uvm_"
      [] t = "# --- UVM Report Summary ---" -> "# --- uvm report summary ---"
      [] t = "INFO"                         -> "info"
      [] t = "WARNING"                      -> "warning"
      [] t = "ERROR"                        -> "error"
      [] t = "FATAL"                        -> "fatal"
      [] t = "A"                            -> "a"
      [] t = "B"                            -> "b"
      [] t = "X"                            -> "x"
      [] OTHER                              -> t

\* str.lower()
lower(s) == [i \in 1..Len(s) |-> LowerLexeme(s[i])]

\* s.startswith(p)
startswith(s, p) == Len(p) <= Len(s) /\ SubSeq(s, 1, Len(p)) = p

\* p in s
contains(p, s) == \E i \in 0..(Len(s) - Len(p)) : SubSeq(s, i + 1, i + Len(p)) = p

IsSpace(t) == t \in {NL, SP}

\* str.rstrip()
RECURSIVE rstrip(_)
rstrip(s) == IF Len(s) > 0 /\ IsSpace(s[Len(s)])
             THEN rstrip(SubSeq(s, 1, Len(s) - 1))
             ELSE s

\* re.sub(r"\x1b(?:\[.*?m)", "", line)
re_sub_escapes(s) == SelectSeq(s, LAMBDA t : t # ESC)

\* re.search(pattern, line): the pattern is a sequence of literal lexemes
\* and of "." lexemes, each of which matches any one lexeme.
re_search(p, s) ==
    \E i \in 0..(Len(s) - Len(p)) :
        \A j \in 1..Len(p) : p[j] = "." \/ p[j] = s[i + j]

DIGITS == <<"0", "1", "2", "3", "4", "5", "6", "7", "8", "9">>

\* str(n) for n >= 0
RECURSIVE str(_)
str(n) == IF n < 10 THEN <<DIGITS[n + 1]>>
          ELSE str(n \div 10) \o <<DIGITS[(n % 10) + 1]>>

\* '{number:<{number_size}}'.format(...)
format_left(number, number_size) ==
    LET d == str(number)
    IN  d \o [i \in 1..(number_size - Len(d)) |-> SP]

\* The line number a formatted location stands for.
RECURSIVE LineNumberOf(_)
LineNumberOf(loc) ==
    IF Len(loc) = 0 THEN 0
    ELSE LET t == loc[Len(loc)]
             r == SubSeq(loc, 1, Len(loc) - 1)
         IN  IF t = SP THEN LineNumberOf(r)
             ELSE 10 * LineNumberOf(r)
                  + (CHOOSE d \in 0..9 : DIGITS[d + 1] = t)

\* seq[i:] of Python, for any integer i
PySliceFrom(seq, i) ==
    LET n     == Len(seq)
        start == IF i < 0 THEN (IF n + i < 0 THEN 0 ELSE n + i)
                 ELSE (IF i > n THEN n ELSE i)
    IN  SubSeq(seq, start + 1, n)

Range(f) == {f[i] : i \in DOMAIN f}

Max(a, b) == IF a >= b THEN a ELSE b

(***************************************************************************)
(* Decoded options and per-call constants of search.                       *)
(***************************************************************************)
\* search_regex
SearchRegex(o) == o.SEARCH_REGEX

\* search_case_sensitive: set by SEARCH_CASE_SENSITIVE and by SEARCH_REGEX
\* Mutant: a regular expression search does not force case sensitivity.
SearchCaseSensitiveFlagOnly(o) == o.SEARCH_CASE_SENSITIVE

SearchCaseSensitive(o) == o.SEARCH_CASE_SENSITIVE \/ o.SEARCH_REGEX

\* The matching strings, lower-cased unless the search is case sensitive.
LocalString(marker, o) == IF ~SearchCaseSensitive(o) THEN lower(marker) ELSE marker

\* search_strings after the in-place lower-casing loop
NormalisedStrings(strings, o) ==
    IF ~SearchCaseSensitive(o)
    THEN [i \in 1..Len(strings) |-> lower(strings[i])]
    ELSE strings

\* Mutant: the width is the number of lines, not its number of digits.
LineNumberWidthIsCount(f) == Len(f)

\* line_number_width = len(str(file_lines))
LineNumberWidth(f) == Len(str(Len(f)))

\* Everything the loop reads and never writes.
Env(f, strings, o) ==
    [ search_strings       |-> NormalisedStrings(strings, o),
      search_strings_count |-> Len(strings),
      line_number_width    |-> LineNumberWidth(f),
      options              |-> o ]

(***************************************************************************)
(* The local state of one call.                                            *)
(***************************************************************************)
InitialLocals ==
    [ messages |-> <<>>, buffer |-> <<>>, text |-> <<>>, origin |-> <<>>,
      matches  |-> {},   match  |-> FALSE, last |-> FALSE, context |-> 0,
      returned |-> FALSE ]

(***************************************************************************)
(* Block close: lines 747-790.                                             *)
(***************************************************************************)
\* Mutant: the end of test string is compared without being lower-cased.
IsEndOfTestCaseBug(fline, o) == contains(END_OF_TEST, fline)

\* fline.startswith(uvm_message_string) or end_of_test_string in fline
IsEndOfTest(fline, o) == contains(LocalString(END_OF_TEST, o), fline)

IsBlockBoundary(fline, o) ==
    startswith(fline, LocalString(UVM_MESSAGE, o)) \/ IsEndOfTest(fline, o)

\* Mutant: the buffer is put in front of the history.
PushBufferInFront(msgs, buf) == IF Len(buf) > 0 THEN <<buf>> \o msgs ELSE msgs

\* Mutant: the history is extended by the lines of the buffer, not by the
\* buffer as one block.
PushBufferExtend(msgs, buf) == msgs \o [i \in 1..Len(buf) |-> <<buf[i]>>]

\* if len(buffer) > 0: messages.append(buffer.copy())
PushBuffer(msgs, buf) == IF Len(buf) > 0 THEN Append(msgs, buf) ELSE msgs

\* Mutant: the history keeps search_context blocks instead of one more.
TrimHistoryOffByOne(msgs, search_context) ==
    SubSeq(msgs, Max(1, Len(msgs) - search_context + 1), Len(msgs))

\* messages = messages[((search_context+1) * -1):]
TrimHistory(msgs, search_context) == PySliceFrom(msgs, (search_context + 1) * (-1))

\* Mutant: the countdown is compared with >= 0.
ShouldFlushAtZero(m, c) == m \/ c >= 0

\* if match or context > 0
ShouldFlush(m, c) == m \/ c > 0

\* Mutant: the test of last is inverted.
NeedsSeparatorInverted(l) == l

\* if not last: text.append(SEPERATION + "\n")
NeedsSeparator(l) == ~l

\* One rendered output line.
RenderEntry(e, show_line_numbers) ==
    IF show_line_numbers THEN e[1] \o <<": ">> \o e[2] \o <<NL>>
    ELSE e[2] \o <<NL>>

RECURSIVE Flatten(_)
Flatten(msgs) == IF Len(msgs) = 0 THEN <<>> ELSE Head(msgs) \o Flatten(Tail(msgs))

\* for ... : text.append(...)
AppendEntries(s, entries, o) ==
    [s EXCEPT !.text   = @ \o [i \in 1..Len(entries) |->
                                 RenderEntry(entries[i], o.SHOW_LINE_NUMBERS)],
              !.origin = @ \o [i \in 1..Len(entries) |-> LineNumberOf(entries[i][1])]]

AppendSeparator(s) ==
    [s EXCEPT !.text = Append(@, SEPERATION \o <<NL>>), !.origin = Append(@, 0)]

\* Mutant: a match while the countdown runs does not start it again.
NextContextNoRearm(m, c, search_context) ==
    IF c > 0 THEN c - 1 ELSE IF m THEN search_context ELSE c

\* if context > 0: context -= 1 ; if match: context = search_context
NextContext(m, c, search_context) ==
    IF m THEN search_context ELSE IF c > 0 THEN c - 1 ELSE c

\* Mutant: the history is kept after it was printed.
FlushedHistoryKept(msgs) == msgs

\* messages = [] after the flush
FlushedHistory(msgs) == <<>>

BlockClose(s, o) ==
    LET msgs == TrimHistory(PushBuffer(s.messages, s.buffer), o.SEARCH_CONTEXT)
        s0   == [s EXCEPT !.buffer = <<>>, !.messages = msgs]
        s1   == IF ShouldFlush(s.match, s.context)
                THEN LET a == IF NeedsSeparator(s.last) THEN AppendSeparator(s0) ELSE s0
                         b == AppendEntries(a, Flatten(msgs), o)
                     IN  [b EXCEPT !.messages = FlushedHistory(msgs), !.last = TRUE]
                ELSE [s0 EXCEPT !.last = FALSE]
    IN  [s1 EXCEPT !.context = NextContext(s.match, s.context, o.SEARCH_CONTEXT),
                   !.match   = FALSE]

(***************************************************************************)
(* Matching of one line: lines 805-836.                                    *)
(***************************************************************************)
\* Mutant: the fatal string is compared without being lower-cased.
ForceMatchCaseBug(fline, o) ==
    \/ startswith(fline, UVM_FATAL)
    \/ o.SHOW_ERRORS   /\ startswith(fline, LocalString(UVM_ERROR, o))
    \/ o.SHOW_WARNINGS /\ startswith(fline, LocalString(UVM_WARNING, o))

\* Mutant: the two options are taken for each other.
ForceMatchSwapped(fline, o) ==
    \/ startswith(fline, LocalString(UVM_FATAL, o))
    \/ o.SHOW_WARNINGS /\ startswith(fline, LocalString(UVM_ERROR, o))
    \/ o.SHOW_ERRORS   /\ startswith(fline, LocalString(UVM_WARNING, o))

ForceMatch(fline, o) ==
    \/ startswith(fline, LocalString(UVM_FATAL, o))
    \/ o.SHOW_ERRORS   /\ startswith(fline, LocalString(UVM_ERROR, o))
    \/ o.SHOW_WARNINGS /\ startswith(fline, LocalString(UVM_WARNING, o))

\* if search_regex: re.search(search_string, line) else: search_string in fline
TermHit(search_string, line, fline, o) ==
    IF SearchRegex(o) THEN re_search(search_string, line)
    ELSE contains(search_string, fline)

\* Mutant: the strings found in earlier lines are forgotten.
RecordMatchesOfLine(matches, strings, line, fline, o) ==
    {t \in Range(strings) : TermHit(t, line, fline, o)}

\* matches[search_string] = 1 for every string found in the line
RecordMatches(matches, strings, line, fline, o) ==
    matches \cup {t \in Range(strings) : TermHit(t, line, fline, o)}

\* Mutant: an empty list of search strings is not excluded.
ExclusiveMatchAlsoEmpty(matches, search_strings_count) ==
    Cardinality(matches) = search_strings_count

\* len(matches) == search_strings_count and search_strings_count > 0
ExclusiveMatch(matches, search_strings_count) ==
    Cardinality(matches) = search_strings_count /\ search_strings_count > 0

\* Mutant: only the first search string is looked for.
InclusiveMatchFirstOnly(strings, line, fline, o) ==
    Len(strings) > 0 /\ TermHit(strings[1], line, fline, o)

InclusiveMatch(strings, line, fline, o) ==
    \E t \in Range(strings) : TermHit(t, line, fline, o)

(***************************************************************************)
(* The body of the loop over the lines of the file: lines 731-836.         *)
(***************************************************************************)
LoopBody(s, e, raw, line_number) ==
    LET o     == e.options
        line  == re_sub_escapes(rstrip(raw))
        fline == IF ~SearchCaseSensitive(o) THEN lower(line) ELSE line
        s1    == IF IsBlockBoundary(fline, o) THEN BlockClose(s, o) ELSE s
    IN  IF IsEndOfTest(fline, o)
        THEN [s1 EXCEPT !.messages = <<>>, !.buffer = <<>>, !.returned = TRUE]
        ELSE LET loc == format_left(line_number, e.line_number_width)
                 mt  == IF o.SEARCH_EXCLUSIVE
                        THEN RecordMatches(s1.matches, e.search_strings, line, fline, o)
                        ELSE s1.matches
                 hit == IF o.SEARCH_EXCLUSIVE
                        THEN ExclusiveMatch(mt, e.search_strings_count)
                        ELSE InclusiveMatch(e.search_strings, line, fline, o)
             IN  [s1 EXCEPT !.buffer  = Append(@, <<loc, line>>),
                            !.matches = mt,
                            !.match   = @ \/ ForceMatch(fline, o) \/ hit]

(***************************************************************************)
(* Print any remaining matches: lines 838-872.                             *)
(***************************************************************************)
\* Mutant: the newest entry of the history is dropped, not the oldest.
PopNewest(msgs) == IF Len(msgs) > 0 THEN SubSeq(msgs, 1, Len(msgs) - 1) ELSE msgs

\* if len(messages) > 0: messages.pop(0)
PopOldest(msgs) == IF Len(msgs) > 0 THEN Tail(msgs) ELSE msgs

PostLoop(s, e) ==
    LET o  == e.options
        s1 == IF ShouldFlush(s.match, s.context)
              THEN LET a    == IF NeedsSeparator(s.last) THEN AppendSeparator(s) ELSE s
                       msgs == TrimHistory(PopOldest(s.messages), o.SEARCH_CONTEXT)
                       b    == AppendEntries(a, Flatten(msgs), o)
                   IN  AppendEntries(b, s.buffer, o)
              ELSE s
    IN  [s1 EXCEPT !.messages = <<>>, !.buffer = <<>>, !.returned = TRUE]

(***************************************************************************)
(* search as a function of its arguments.                                  *)
(***************************************************************************)
RECURSIVE RunFrom(_, _, _, _)
RunFrom(s, e, f, n) ==
    IF n > Len(f) THEN PostLoop(s, e)
    ELSE LET t == LoopBody(s, e, f[n], n)
         IN  IF t.returned THEN t ELSE RunFrom(t, e, f, n + 1)

search(f, strings, o) == RunFrom(InitialLocals, Env(f, strings, o), f, 1)

(***************************************************************************)
(* The call as a state machine.                                            *)
(*   disk            the lines of the file file_name names                 *)
(*   search_strings  the caller's list (lower-cased in place by search)    *)
(*   search_options  the caller's dictionary                               *)
(*   pc              "call": entered, file not read; "loop": in the loop   *)
(*                   over the lines; "done": returned                      *)
(*   origin          for every element of text, the source line number it  *)
(*                   renders (0 for a separator)                           *)
(* The other variables are the locals of search.                           *)
(***************************************************************************)
VARIABLES disk, search_strings, search_options, pc,
          file, line_number, line_number_width, search_strings_count,
          messages, buffer, text, origin, matches, match, last, context,
          previous,
          search_frame_next, search_string_entries, SEARCH_OR, BUTTON_ADD_SEARCH

\* The search string fields of the window: the next key, the keys of the
\* entry boxes, the keys of the additional rows, the state of the + button.
window == <<search_frame_next, search_string_entries, SEARCH_OR, BUTTON_ADD_SEARCH>>

\* What a call leaves alone: the file on disk, the option dictionary, the
\* outputs the caller got from its earlier calls, and the window.
inputs == <<disk, search_options, previous, window>>
vars == <<disk, search_strings, search_options, pc,
          file, line_number, line_number_width, search_strings_count,
          messages, buffer, text, origin, matches, match, last, context,
          previous,
          search_frame_next, search_string_entries, SEARCH_OR, BUTTON_ADD_SEARCH>>

\* Lines 98-99 and 265-299: the window as SearchGUI builds it, with the one
\* entry box of key 0 and the + button.
WindowBuilt ==
    /\ search_frame_next = 1
    /\ search_string_entries = {0}
    /\ SEARCH_OR = {}
    /\ BUTTON_ADD_SEARCH = "normal"

Locals ==
    [ messages |-> messages, buffer |-> buffer, text |-> text, origin |-> origin,
      matches  |-> matches,  match  |-> match,  last |-> last, context |-> context,
      returned |-> pc = "done" ]

CallEnv ==
    [ search_strings       |-> search_strings,
      search_strings_count |-> search_strings_count,
      line_number_width    |-> line_number_width,
      options              |-> search_options ]

SetLocals(s) ==
    /\ messages' = s.messages
    /\ buffer'   = s.buffer
    /\ text'     = s.text
    /\ origin'   = s.origin
    /\ matches'  = s.matches
    /\ match'    = s.match
    /\ last'     = s.last
    /\ context'  = s.context

\* The state on entry to search, for the given arguments.
Called(f, strings, o) ==
    /\ disk = f
    /\ search_strings = strings
    /\ search_options = o
    /\ previous = <<>>
    /\ WindowBuilt
    /\ pc = "call"
    /\ file = <<>>
    /\ line_number = 0
    /\ line_number_width = 0
    /\ search_strings_count = 0
    /\ messages = InitialLocals.messages
    /\ buffer   = InitialLocals.buffer
    /\ text     = InitialLocals.text
    /\ origin   = InitialLocals.origin
    /\ matches  = InitialLocals.matches
    /\ match    = InitialLocals.match
    /\ last     = InitialLocals.last
    /\ context  = InitialLocals.context

\* Lines 707-728: read the file, take the width and the count, lower-case.
ReadFile ==
    /\ pc = "call"
    /\ pc' = "loop"
    /\ file' = disk
    /\ line_number_width' = LineNumberWidth(disk)
    /\ search_strings_count' = Len(search_strings)
    /\ search_strings' = NormalisedStrings(search_strings, search_options)
    /\ UNCHANGED <<inputs, line_number, messages, buffer, text, origin,
                   matches, match, last, context>>

NextLine == re_sub_escapes(rstrip(file[line_number + 1]))
NextFLine == IF ~SearchCaseSensitive(search_options) THEN lower(NextLine) ELSE NextLine

\* One iteration of the loop that does not return.
LoopLine ==
    /\ pc = "loop"
    /\ line_number < Len(file)
    /\ ~IsEndOfTest(NextFLine, search_options)
    /\ line_number' = line_number + 1
    /\ SetLocals(LoopBody(Locals, CallEnv, file[line_number + 1], line_number + 1))
    /\ UNCHANGED <<inputs, search_strings, pc, file, line_number_width,
                   search_strings_count>>

\* The iteration that sees the end of test message: lines 792-797.
EndOfTest ==
    /\ pc = "loop"
    /\ line_number < Len(file)
    /\ IsEndOfTest(NextFLine, search_options)
    /\ line_number' = line_number + 1
    /\ SetLocals(LoopBody(Locals, CallEnv, file[line_number + 1], line_number + 1))
    /\ pc' = "done"
    /\ file' = <<>>
    /\ UNCHANGED <<inputs, search_strings, line_number_width, search_strings_count>>

\* The loop ran out of lines: lines 838-872.
EndOfFile ==
    /\ pc = "loop"
    /\ line_number = Len(file)
    /\ SetLocals(PostLoop(Locals, CallEnv))
    /\ pc' = "done"
    /\ file' = <<>>
    /\ UNCHANGED <<inputs, search_strings, line_number, line_number_width,
                   search_strings_count>>

Next == ReadFile \/ LoopLine \/ EndOfTest \/ EndOfFile

\* Mutant: matches is created once and shared by the calls.
EnterSharingMatches(s) == [InitialLocals EXCEPT !.matches = s.matches]

\* Lines 640-648: every call creates its local state anew.
Enter(s) == InitialLocals

\* The caller keeps the output and calls search again with the same file, the
\* same search_strings list and the same options.
CallAgain ==
    /\ pc = "done"
    /\ previous = <<>>
    /\ previous' = <<text>>
    /\ pc' = "call"
    /\ SetLocals(Enter(Locals))
    /\ file' = <<>>
    /\ line_number' = 0
    /\ line_number_width' = 0
    /\ search_strings_count' = 0
    /\ UNCHANGED <<disk, search_options, search_strings, window>>

NextTwice == Next \/ CallAgain

(***************************************************************************)
(* The search string fields of SearchGUI: lines 265-378.                   *)
(***************************************************************************)
\* The number of additional rows at which the + button is disabled.
MaxAdditional == 9

\* Mutant: the + button is disabled one row late.
AddDisabledLate(n) == n > MaxAdditional

\* if len(sfe) >= 9
AddDisabled(n) == n >= MaxAdditional

\* if len(sfe) < 9
AddEnabled(n) == n < MaxAdditional

\* What the field actions leave alone.
searching == <<disk, search_strings, search_options, pc,
               file, line_number, line_number_width, search_strings_count,
               messages, buffer, text, origin, matches, match, last, context,
               previous>>

\* The + button is pressed; a disabled button does not run its command.
search_additional_fields ==
    /\ BUTTON_ADD_SEARCH = "normal"
    /\ search_frame_next <= MaxKey
    /\ LET key == search_frame_next
       IN  /\ search_frame_next' = search_frame_next + 1
           /\ SEARCH_OR' = SEARCH_OR \cup {key}
           /\ search_string_entries' = search_string_entries \cup {key}
           /\ BUTTON_ADD_SEARCH' = IF AddDisabled(Cardinality(SEARCH_OR \cup {key}))
                                   THEN "disabled" ELSE BUTTON_ADD_SEARCH
    /\ UNCHANGED searching

\* The - button of the row with the given key is pressed.
search_fewer_fields(key) ==
    /\ key \in SEARCH_OR
    /\ SEARCH_OR' = SEARCH_OR \ {key}
    /\ search_string_entries' = search_string_entries \ {key}
    /\ BUTTON_ADD_SEARCH' = IF AddEnabled(Cardinality(SEARCH_OR \ {key}))
                            THEN "normal" ELSE BUTTON_ADD_SEARCH
    /\ UNCHANGED <<searching, search_frame_next>>

RemoveField == \E key \in 1..MaxKey : search_fewer_fields(key)

NextWindow == search_additional_fields \/ RemoveField

(***************************************************************************)
(* Sources, search strings and options the specifications draw from.       *)
(***************************************************************************)
PlainX  == <<"x", NL>>
PlainA  == <<"A", NL>>
PlainB  == <<"B", NL>>
InfoX   == <<"# UVM_", "INFO", "x", NL>>
InfoA   == <<"# UVM_", "INFO", "A", NL>>
InfoB   == <<"# UVM_", "INFO", "B", NL>>
InfoLoA == <<"# UVM_", "INFO", "a", NL>>
WarnX   == <<"# UVM_", "WARNING", "x", NL>>
ErrorX  == <<"# UVM_", "ERROR", "x", NL>>
FatalX  == <<"# UVM_", "FATAL", "x", NL>>
FatalLo == <<ESC, "# uvm_", "fatal", "x", ESC, SP, NL>>
EndLine == <<"# --- UVM Report Summary ---", NL>>

SeqsUpTo(S, n) == UNION {[1..k -> S] : k \in 0..n}

Options(cs, regex, excl, errs, warns, nums, ctx) ==
    [ SEARCH_CASE_SENSITIVE |-> cs,   SEARCH_REGEX      |-> regex,
      SEARCH_EXCLUSIVE      |-> excl, SHOW_ERRORS       |-> errs,
      SHOW_WARNINGS         |-> warns, SHOW_LINE_NUMBERS |-> nums,
      SEARCH_CONTEXT        |-> ctx ]

\* Inclusive search for "A", every context, over short sources.
Init ==
    \E f \in SeqsUpTo({PlainX, InfoX, InfoA, EndLine}, MaxLines),
       ctx \in 0..MaxContext, nums \in BOOLEAN :
        Called(f, << <<"A">> >>, Options(TRUE, FALSE, FALSE, FALSE, FALSE, nums, ctx))

Spec == Init /\ [][Next]_vars

(***************************************************************************)
(* The structure of the source, as the claims speak of it.                 *)
(***************************************************************************)
\* Source line i as it is compared: stripped, and case-folded when the
\* search is not case sensitive.
SrcLine(i)  == re_sub_escapes(rstrip(disk[i]))
SrcFLine(i) == IF ~SearchCaseSensitive(search_options) THEN lower(SrcLine(i))
               ELSE SrcLine(i)

\* The lines that contain the end-of-test marker, and the first of them
\* (one past the last line when there is none).
MarkerLines == {i \in 1..Len(disk) :
                  contains(LocalString(END_OF_TEST, search_options), SrcFLine(i))}
FirstMarker == IF MarkerLines = {} THEN Len(disk) + 1
               ELSE CHOOSE i \in MarkerLines : \A j \in MarkerLines : i <= j
Scanned     == 1..(FirstMarker - 1)

\* A block starts at the start of the stream and at every message marker.
StartsBlock(i) == i = 1 \/ startswith(SrcFLine(i), LocalString(UVM_MESSAGE, search_options))
BlockOf(i)     == Cardinality({j \in 1..i : StartsBlock(j)})
NumBlocks      == IF Scanned = {} THEN 0 ELSE BlockOf(FirstMarker - 1)
BlockLines(k)  == {i \in Scanned : BlockOf(i) = k}

Terms == Range(NormalisedStrings(search_strings, search_options))
TermOccurs(t, i) ==
    IF SearchRegex(search_options) THEN re_search(t, SrcLine(i)) ELSE contains(t, SrcFLine(i))

HasFatal(k) == \E i \in BlockLines(k) :
                  startswith(SrcFLine(i), LocalString(UVM_FATAL, search_options))
ForceShown(k) ==
    \/ HasFatal(k)
    \/ search_options.SHOW_ERRORS /\ \E i \in BlockLines(k) :
           startswith(SrcFLine(i), LocalString(UVM_ERROR, search_options))
    \/ search_options.SHOW_WARNINGS /\ \E i \in BlockLines(k) :
           startswith(SrcFLine(i), LocalString(UVM_WARNING, search_options))
OrMatched(k)  == \E i \in BlockLines(k), t \in Terms : TermOccurs(t, i)
AndMatched(k) == Terms # {} /\ \A t \in Terms : \E i \in BlockLines(k) : TermOccurs(t, i)

\* What the output shows.
SeparatorLine    == SEPERATION \o <<NL>>
EmittedLines     == Range(origin) \ {0}
\* Source line i is in the output, rendered as the options ask.
Shows(i) ==
    \E j \in 1..Len(origin) :
        /\ origin[j] = i
        /\ text[j] = RenderEntry(<<format_left(i, LineNumberWidth(disk)), SrcLine(i)>>,
                                 search_options.SHOW_LINE_NUMBERS)
EmittedInFull(k) == \A i \in BlockLines(k) : Shows(i)
EmittedPart(k)   == BlockLines(k) \cap EmittedLines # {}
FirstLine(k)     == CHOOSE i \in BlockLines(k) : \A j \in BlockLines(k) : i <= j
LastLine(k)      == CHOOSE i \in BlockLines(k) : \A j \in BlockLines(k) : j <= i
DecimalDigits(n) == Len(str(n))
Interval(a, b)   == [i \in 1..(b - a + 1) |-> a + i - 1]

(***************************************************************************)
(* C1.  With context_count = N and exactly one matching block, at position *)
(* k, the output contains every line of blocks max(1, k-N)..k as one       *)
(* contiguous run with no separator inside, whether the stream ends with   *)
(* the end-of-test marker or at end of input.                              *)
(***************************************************************************)
C1_ContextRun ==
    pc = "done" =>
        \A k \in 1..NumBlocks :
            {j \in 1..NumBlocks : OrMatched(j)} = {k} =>
                contains(Interval(FirstLine(Max(1, k - search_options.SEARCH_CONTEXT)),
                                  LastLine(k)),
                         origin)

(***************************************************************************)
(* C5.  For every input whose output is non-empty, the first output line   *)
(* is not the separator.                                                   *)
(***************************************************************************)
C5_NoLeadingSeparator ==
    (pc = "done" /\ text # <<>>) => text[1] # SeparatorLine

\* C5 as amended: every non-empty output starts with the separator, also
\* when the first printed run starts at the first line of the source.
C5_LeadingSeparator ==
    (pc = "done" /\ text # <<>>) => (text[1] = SeparatorLine /\ origin[1] = 0)

C5_Witness ==
    pc = "done" /\ Len(text) >= 2 /\ text[1] = SeparatorLine /\ origin[2] = 1

(***************************************************************************)
(* C6.  Whenever a separator line is emitted between two emitted blocks,   *)
(* those two blocks are not adjacent in the source: at least one whole     *)
(* block lying between them was not emitted.                               *)
(***************************************************************************)
C6_SeparatorMeansGap ==
    pc = "done" =>
        \A j \in 2..(Len(origin) - 1) :
            (origin[j] = 0 /\ origin[j - 1] # 0 /\ origin[j + 1] # 0) =>
                \E k \in (BlockOf(origin[j - 1]) + 1)..(BlockOf(origin[j + 1]) - 1) :
                    ~EmittedPart(k)

(***************************************************************************)
(* C7.  Separators are never doubled: each separator line is immediately   *)
(* followed by an emitted log line, so the output never holds two          *)
(* separators in a row and never ends with a separator.                    *)
(***************************************************************************)
C7_SeparatorFollowedByLine ==
    \A j \in 1..Len(origin) :
        origin[j] = 0 => (j < Len(origin) /\ origin[j + 1] # 0)

C7_Witness ==
    pc = "done" /\ Cardinality({j \in 1..Len(origin) : origin[j] = 0}) >= 2

(***************************************************************************)
(* Searches for one or two strings, inclusive and exclusive.               *)
(***************************************************************************)
InitTerms ==
    \E f \in SeqsUpTo({InfoX, InfoA, PlainB, EndLine}, MaxLines),
       strings \in { << <<"A">> >>, << <<"A">>, <<"B">> >>, << <<"A">>, <<"A">> >> },
       excl \in BOOLEAN, ctx \in 0..MaxContext :
        Called(f, strings, Options(TRUE, FALSE, excl, FALSE, FALSE, FALSE, ctx))

SpecTerms == InitTerms /\ [][Next]_vars

(***************************************************************************)
(* C2.  In exclusive (AND) mode a block with no force-show line is matched *)
(* only if every term occurs in a line of that same block, whatever the    *)
(* earlier blocks contain; with terms {A, B} and context_count = 0 a block *)
(* containing only A is never emitted.                                     *)
(***************************************************************************)
C2_AndWithinBlock ==
    search_options.SEARCH_EXCLUSIVE =>
        /\ (pc = "loop" /\ line_number >= 1 /\ match) =>
               (ForceShown(BlockOf(line_number)) \/ AndMatched(BlockOf(line_number)))
        /\ (pc = "done" /\ search_options.SEARCH_CONTEXT = 0) =>
               \A k \in 1..NumBlocks :
                   EmittedPart(k) => (ForceShown(k) \/ AndMatched(k))

(***************************************************************************)
(* C3.  In exclusive (AND) mode with a non-empty list of pairwise distinct *)
(* terms, every block that precedes the end-of-test marker and in which    *)
(* each term occurs in at least one line is emitted in full.               *)
(***************************************************************************)
DistinctTerms == Len(search_strings) > 0 /\ Cardinality(Terms) = Len(search_strings)

C3_AndBlockEmitted ==
    (pc = "done" /\ search_options.SEARCH_EXCLUSIVE /\ DistinctTerms) =>
        \A k \in 1..NumBlocks : AndMatched(k) => EmittedInFull(k)

\* A block holding the two terms on different lines has been emitted.
C3_Witness ==
    /\ pc = "done" /\ search_options.SEARCH_EXCLUSIVE /\ DistinctTerms
    /\ Len(search_strings) = 2
    /\ \E k \in 1..NumBlocks :
          /\ AndMatched(k) /\ EmittedInFull(k)
          /\ \A i \in BlockLines(k) : \E t \in Terms : ~TermOccurs(t, i)

(***************************************************************************)
(* C4.  In inclusive (OR) mode every block that precedes the end-of-test   *)
(* marker and has a line containing one of the terms is emitted in full,   *)
(* whether a message marker, the end-of-test marker or the end of input    *)
(* closes it.                                                              *)
(***************************************************************************)
C4_OrBlockEmitted ==
    (pc = "done" /\ ~search_options.SEARCH_EXCLUSIVE) =>
        \A k \in 1..NumBlocks : OrMatched(k) => EmittedInFull(k)

\* The last block, closed by the end of input, holds only the second term.
C4_Witness ==
    /\ pc = "done" /\ ~search_options.SEARCH_EXCLUSIVE
    /\ MarkerLines = {} /\ NumBlocks >= 2
    /\ OrMatched(NumBlocks) /\ EmittedInFull(NumBlocks)
    /\ \A i \in BlockLines(NumBlocks) : ~TermOccurs(<<"A">>, i)
    /\ \E k \in 1..(NumBlocks - 1) : OrMatched(k) /\ EmittedInFull(k)

(***************************************************************************)
(* Sources with lines after the end of test message.  The search is not    *)
(* case sensitive, so the markers and the string are lower-cased.          *)
(***************************************************************************)
Heads == SeqsUpTo({InfoX, InfoA}, MaxHead)
Tails == {[i \in 1..n |-> t] : n \in 0..MaxTail, t \in {InfoA, EndLine}}

InitTail ==
    \E f \in Heads \cup {h \o <<EndLine>> \o t : h \in Heads, t \in Tails},
       nums \in BOOLEAN, ctx \in 0..MaxContext :
        Called(f, << <<"A">> >>, Options(FALSE, FALSE, FALSE, FALSE, FALSE, nums, ctx))

SpecTail == InitTail /\ [][Next]_vars

\* The source up to and including its first end of test line.
UpToMarker == SubSeq(disk, 1, FirstMarker)

\* The result of the call on the same lines followed by another tail.
WithTail(t) == search(UpToMarker \o t, search_strings, search_options)

(***************************************************************************)
(* C8.  No source line after the first line containing the end-of-test     *)
(* marker appears in the output, the marker line itself is not emitted,    *)
(* and which source lines are selected is the same whatever lines follow   *)
(* the marker line.                                                        *)
(***************************************************************************)
C8_NothingAfterMarker ==
    pc = "done" =>
        /\ EmittedLines \subseteq Scanned
        /\ MarkerLines # {} => \A t \in Tails : WithTail(t).origin = origin

\* A line holding the search string follows the marker, and lines before
\* the marker were emitted.
C8_Witness ==
    /\ pc = "done" /\ MarkerLines # {} /\ EmittedLines # {}
    /\ \E i \in (FirstMarker + 1)..Len(disk) : TermOccurs(<<"a">>, i)

(***************************************************************************)
(* C9.  For any two sources that agree on every line up to and including   *)
(* the first line containing the end-of-test marker, the call returns      *)
(* identical output sequences, compared as rendered strings (including the *)
(* line-number prefixes when show_line_numbers is on).                     *)
(***************************************************************************)
C9_SameOutputWhateverFollows ==
    (pc = "done" /\ MarkerLines # {}) =>
        \A t \in Tails : WithTail(t).text = text

\* C9 as amended: the outputs are identical when show_line_numbers is off,
\* or when the line counts of the two sources have the same number of
\* decimal digits (the prefix is padded to that width).
C9_SameOutputSameWidth ==
    (pc = "done" /\ MarkerLines # {}) =>
        \A t \in Tails :
            (\/ ~search_options.SHOW_LINE_NUMBERS
             \/ DecimalDigits(Len(UpToMarker \o t)) = DecimalDigits(Len(disk)))
            => WithTail(t).text = text

C9_Witness ==
    /\ pc = "done" /\ MarkerLines # {} /\ text # <<>>
    /\ search_options.SHOW_LINE_NUMBERS
    /\ Len(disk) >= 10
    /\ \E t \in Tails : /\ t # SubSeq(disk, FirstMarker + 1, Len(disk))
                        /\ Len(UpToMarker \o t) >= 10

(***************************************************************************)
(* Sources with fatal messages, searched with and without a string, case   *)
(* sensitive or not, with the other options on or off.                     *)
(***************************************************************************)
InitFatal ==
    \E f \in SeqsUpTo({InfoA, FatalX, FatalLo, EndLine}, MaxLines),
       strings \in { <<>>, << <<"A">> >> },
       cs \in BOOLEAN, flag \in BOOLEAN, ctx \in 0..MaxContext :
        Called(f, strings, Options(cs, FALSE, flag, flag, flag, flag, ctx))

SpecFatal == InitFatal /\ [][Next]_vars

(***************************************************************************)
(* C10.  Every line that starts with the fatal marker and precedes the     *)
(* first line containing the end-of-test marker appears in the output,     *)
(* for every term list, every combination of the other options and every   *)
(* context_count >= 0.                                                     *)
(***************************************************************************)
IsFatalLine(i) == startswith(SrcFLine(i), LocalString(UVM_FATAL, search_options))

C10_FatalShown ==
    pc = "done" => \A i \in Scanned : IsFatalLine(i) => Shows(i)

\* A fatal line written in lower case and wrapped in escapes is shown by a
\* search without strings that is not case sensitive.
C10_Witness ==
    /\ pc = "done" /\ search_strings = <<>>
    /\ \E i \in Scanned : disk[i] = FatalLo /\ IsFatalLine(i) /\ Shows(i)

(***************************************************************************)
(* Sources with error and warning messages, the two always-show options    *)
(* on or off, searched for "A" inclusively and exclusively.                *)
(***************************************************************************)
InitForce ==
    \E f \in SeqsUpTo({InfoA, ErrorX, WarnX, EndLine}, MaxLines),
       excl \in BOOLEAN, errs \in BOOLEAN, warns \in BOOLEAN, ctx \in 0..MaxContext :
        Called(f, << <<"A">> >>, Options(TRUE, FALSE, excl, errs, warns, FALSE, ctx))

\* The same sources searched without a string.
InitEmpty ==
    \E f \in SeqsUpTo({InfoA, ErrorX, WarnX, EndLine}, MaxLines),
       excl \in BOOLEAN, errs \in BOOLEAN, warns \in BOOLEAN, ctx \in 0..MaxContext :
        Called(f, <<>>, Options(TRUE, FALSE, excl, errs, warns, FALSE, ctx))

SpecEmpty == InitEmpty /\ [][Next]_vars

SpecForce == InitForce /\ [][Next]_vars

IsErrorLine(i)   == startswith(SrcFLine(i), LocalString(UVM_ERROR, search_options))
IsWarningLine(i) == startswith(SrcFLine(i), LocalString(UVM_WARNING, search_options))

\* The block is matched by the terms, in the mode of the search.
TermMatched(k) == IF search_options.SEARCH_EXCLUSIVE THEN AndMatched(k) ELSE OrMatched(k)

\* The block lies at most context_count blocks before or after another
\* block that is force-shown or matched by the terms.
IsContext(k) ==
    \E j \in 1..NumBlocks :
        /\ j # k
        /\ ForceShown(j) \/ TermMatched(j)
        /\ j - k <= search_options.SEARCH_CONTEXT
        /\ k - j <= search_options.SEARCH_CONTEXT

C12_OnlyForceShown ==
    (pc = "done" /\ search_strings = <<>>) =>
        \A k \in 1..NumBlocks : EmittedPart(k) => ForceShown(k)

\* C12 as amended: with an empty term list each emitted block is
\* force-shown or lies at most context_count blocks before or after a
\* force-shown block; with context_count = 0 each emitted block is
\* force-shown.
C12_ForceShownOrContext ==
    (pc = "done" /\ search_strings = <<>>) =>
        \A k \in 1..NumBlocks : EmittedPart(k) => (ForceShown(k) \/ IsContext(k))

\* An exclusive search without strings over a source with a shown error
\* block, an info block next to it and an info block further away.
C12_Witness ==
    /\ pc = "done" /\ search_strings = <<>> /\ search_options.SEARCH_EXCLUSIVE
    /\ search_options.SEARCH_CONTEXT = 1
    /\ \E k \in 1..NumBlocks : ForceShown(k) /\ EmittedInFull(k)
    /\ \E k \in 1..NumBlocks : ~ForceShown(k) /\ EmittedInFull(k)
    /\ \E k \in 1..NumBlocks : ~ForceShown(k) /\ ~EmittedPart(k)

(***************************************************************************)
(* Calls with a negative SEARCH_CONTEXT.                                   *)
(***************************************************************************)
InitNegative ==
    \E f \in SeqsUpTo({PlainX, InfoX, InfoA, EndLine}, MaxLines),
       ctx \in (0 - MaxNegative)..(0 - 1) :
        Called(f, << <<"A">> >>, Options(TRUE, FALSE, FALSE, FALSE, FALSE, FALSE, ctx))

SpecNegative == InitNegative /\ [][Next]_vars

\* The result of the call on the same source with another SEARCH_CONTEXT.
WithContext(ctx) ==
    search(disk, search_strings, [search_options EXCEPT !.SEARCH_CONTEXT = ctx])

(***************************************************************************)
(* C13.  options.context_count is clamped to >= 0: the call with a         *)
(* negative context_count returns the same output as the call with         *)
(* context_count = 0 (every matched block is emitted, no unmatched block   *)
(* is).                                                                    *)
(***************************************************************************)
C13_NegativeContextIsZero ==
    (pc = "done" /\ search_options.SEARCH_CONTEXT < 0) =>
        /\ text = WithContext(0).text
        /\ \A k \in 1..NumBlocks : OrMatched(k) <=> EmittedInFull(k)

(***************************************************************************)
(* C14.  The log lines of the output appear in non-decreasing order of     *)
(* their 1-based source line number.                                       *)
(***************************************************************************)
C14_OutputInSourceOrder ==
    \A i, j \in 1..Len(origin) :
        (i < j /\ origin[i] # 0 /\ origin[j] # 0) => origin[i] <= origin[j]

\* Two printed runs, the second with a block of leading context.
C14_Witness ==
    /\ pc = "done" /\ search_options.SEARCH_CONTEXT >= 1
    /\ Cardinality(EmittedLines) >= 3
    /\ \E j \in 3..(Len(origin) - 2) : origin[j] = 0

\* The places of the output holding lines of block k.
PositionsOf(k) == {j \in 1..Len(origin) : origin[j] \in BlockLines(k)}

(***************************************************************************)
(* C15.  A block is the atomic unit of output: either all of its lines     *)
(* appear in the output as one contiguous run in source order, with no     *)
(* separator and no line of another block between them, or none of its     *)
(* lines appears.                                                          *)
(***************************************************************************)
C15_BlockAtomic ==
    pc = "done" =>
        \A k \in 1..NumBlocks :
            \/ PositionsOf(k) = {}
            \/ \E p \in 1..Len(origin) :
                  /\ PositionsOf(k) = p..(p + Cardinality(BlockLines(k)) - 1)
                  /\ \A j \in PositionsOf(k) : origin[j] = FirstLine(k) + (j - p)

\* A block of several lines is emitted after a block that is not.
C15_Witness ==
    /\ pc = "done"
    /\ \E k \in 2..NumBlocks :
          /\ Cardinality(BlockLines(k)) >= 2 /\ EmittedInFull(k)
          /\ Cardinality(BlockLines(k - 1)) >= 2 /\ ~EmittedPart(k - 1)

(***************************************************************************)
(* C16.  Zero matches yield an empty sequence: when no block of the stream *)
(* is matched by the terms and none is force-shown, the call returns the   *)
(* empty output, whether or not the stream contains the end-of-test        *)
(* marker.                                                                 *)
(***************************************************************************)
C16_NoMatchNoOutput ==
    (pc = "done" /\ \A k \in 1..NumBlocks : ~TermMatched(k) /\ ~ForceShown(k))
        => text = <<>>

(***************************************************************************)
(* The worked example: an info message of two lines, an error message and  *)
(* the end of test message.                                                *)
(***************************************************************************)
ExHello == <<"# UVM_", "INFO", "hello", NL>>
ExLineX == <<"line", "X", NL>>
ExError == <<"# UVM_", "ERROR", "bad thing", NL>>

ExampleSource == <<ExHello, ExLineX, ExError, EndLine>>

InitExample ==
    \E f \in SeqsUpTo({ExHello, ExLineX, ExError, EndLine}, MaxLines),
       strings \in {<<>>, << <<"hello">> >>},
       errs \in BOOLEAN, ctx \in 0..MaxContext :
        Called(f, strings, Options(FALSE, FALSE, FALSE, errs, FALSE, FALSE, ctx))

SpecExample == InitExample /\ [][Next]_vars

(***************************************************************************)
(* C17.  For the source ["# UVM_INFO hello", "line X",                     *)
(* "# UVM_ERROR bad thing", "# --- UVM Report Summary ---"] with no search *)
(* string, SHOW_ERRORS set, no line numbers and SEARCH_CONTEXT = 0, the    *)
(* call returns exactly the two lines "..." and "# UVM_ERROR bad thing".   *)
(***************************************************************************)
C17_Example ==
    ( /\ pc = "done"
      /\ disk = ExampleSource
      /\ search_strings = <<>>
      /\ search_options.SHOW_ERRORS
      /\ search_options.SEARCH_CONTEXT = 0 )
        => text = << <<"...", NL>>, <<"# UVM_", "ERROR", "bad thing", NL>> >>

C17_Witness ==
    /\ pc = "done"
    /\ disk = ExampleSource
    /\ search_strings = <<>>
    /\ search_options.SHOW_ERRORS
    /\ search_options.SEARCH_CONTEXT = 0
    /\ Len(text) = 2 /\ origin = <<0, 3>>

(***************************************************************************)
(* Regular expression searches, with the case sensitive option on and off. *)
(***************************************************************************)
InitRegex ==
    \E f \in SeqsUpTo({InfoX, InfoA, InfoLoA, EndLine}, MaxLines),
       strings \in {<< <<"A">> >>, << <<"INFO", ".">> >>},
       cs \in BOOLEAN, ctx \in 0..MaxContext :
        Called(f, strings, Options(cs, TRUE, FALSE, FALSE, FALSE, FALSE, ctx))

SpecRegex == InitRegex /\ [][Next]_vars

\* The result of the call with the case sensitive option the other way.
WithOtherCase ==
    search(disk, search_strings,
           [search_options EXCEPT !.SEARCH_CASE_SENSITIVE = ~@])

(***************************************************************************)
(* C18.  A regular expression search is case sensitive whatever the case   *)
(* sensitive option says: the call returns the same output for             *)
(* SEARCH_CASE_SENSITIVE true and false, and the search strings are not    *)
(* lower-cased.                                                            *)
(***************************************************************************)
C18_RegexForcesCaseSensitive ==
    /\ [] ((pc = "done" /\ search_options.SEARCH_REGEX)
              => /\ text = WithOtherCase.text
                 /\ \A i \in 1..Len(search_strings) :
                       search_strings[i] # lower(search_strings[i]))
    /\ [][search_options.SEARCH_REGEX => search_strings' = search_strings]_vars

\* The option is off, an upper-case and a lower-case message were read, and
\* only the upper-case one is printed.
C18_Witness ==
    /\ pc = "done"
    /\ search_options.SEARCH_REGEX /\ ~search_options.SEARCH_CASE_SENSITIVE
    /\ \E i, j \in Scanned :
          /\ disk[i] = InfoA   /\ i \in EmittedLines
          /\ disk[j] = InfoLoA /\ j \notin EmittedLines

(***************************************************************************)
(* Two calls in a row with the same search_strings list.                   *)
(***************************************************************************)
InitTwice ==
    \E f \in SeqsUpTo({InfoX, InfoA, PlainB, EndLine}, MaxLines),
       cs \in BOOLEAN, excl \in BOOLEAN, ctx \in 0..MaxContext :
        Called(f, << <<"A">>, <<"B">> >>, Options(cs, FALSE, excl, FALSE, FALSE, FALSE, ctx))

SpecTwice == InitTwice /\ [][NextTwice]_vars

(***************************************************************************)
(* C19.  Idempotence: two calls in a row with the same source, the same    *)
(* search_strings list and the same options return identical outputs; no   *)
(* state left by the first call changes the result of the second.          *)
(***************************************************************************)
C19_SecondCallSameOutput ==
    (pc = "done" /\ previous # <<>>) => text = previous[1]

\* The second call returned lines, after the first left its strings lower-cased.
C19_Witness ==
    /\ pc = "done" /\ previous # <<>>
    /\ ~search_options.SEARCH_CASE_SENSITIVE
    /\ search_strings = << <<"a">>, <<"b">> >>
    /\ Len(text) >= 2
    /\ Cardinality(EmittedLines) < Len(disk)

\* The last block of the trailing context of block k.
LastTrailing(k) ==
    IF k + search_options.SEARCH_CONTEXT <= NumBlocks
    THEN k + search_options.SEARCH_CONTEXT ELSE NumBlocks

(***************************************************************************)
(* C20.  Trailing context: with SEARCH_CONTEXT = N >= 0, after a matched   *)
(* block k the next N blocks k+1..k+N (as many as exist before the end of  *)
(* test message or the end of the file) are emitted in full directly after *)
(* block k, with no separator between them, whether or not they match; a   *)
(* match inside that window starts the countdown again at N.               *)
(***************************************************************************)
C20_TrailingContext ==
    pc = "done" =>
        \A k \in 1..NumBlocks :
            TermMatched(k) =>
                contains(Interval(FirstLine(k), LastLine(LastTrailing(k))), origin)

\* Source line i closes the block before it: it starts with the message
\* marker or contains the end of test message.
ClosesBlock(i) ==
    \/ startswith(SrcFLine(i), LocalString(UVM_MESSAGE, search_options))
    \/ i \in MarkerLines

\* The loop is about to read a line that closes a block.
AtClose == pc = "loop" /\ line_number < Len(disk) /\ ClosesBlock(line_number + 1)

\* Source line i alone sets the match flag of an inclusive search.
LineSetsMatch(i) ==
    \/ \E t \in Terms : TermOccurs(t, i)
    \/ startswith(SrcFLine(i), LocalString(UVM_FATAL, search_options))
    \/ search_options.SHOW_ERRORS
         /\ startswith(SrcFLine(i), LocalString(UVM_ERROR, search_options))
    \/ search_options.SHOW_WARNINGS
         /\ startswith(SrcFLine(i), LocalString(UVM_WARNING, search_options))

(***************************************************************************)
(* C21.  Block-close transition: at every block close (a line starting     *)
(* with the message marker or containing the end of test message) the      *)
(* history is flushed to the output if and only if match is set or         *)
(* context > 0; afterwards context is SEARCH_CONTEXT if the closed block   *)
(* matched and otherwise max(context - 1, 0), match is false before the    *)
(* closing line itself is searched (so after the step it tells only        *)
(* whether that line matched), and the history is empty if a flush         *)
(* happened.                                                               *)
(***************************************************************************)
C21_BlockCloseTransition ==
    [][ AtClose =>
          /\ (Len(text') > Len(text)) <=> (match \/ context > 0)
          /\ context' = IF match THEN search_options.SEARCH_CONTEXT
                        ELSE IF context > 0 THEN context - 1 ELSE 0
          /\ match' = ((line_number + 1) \notin MarkerLines
                          /\ LineSetsMatch(line_number + 1))
          /\ (match \/ context > 0) => messages' = <<>> ]_vars

\* A block was just closed and flushed while the countdown of an earlier
\* match was running, and the countdown was started again.
C21_Witness ==
    /\ pc = "loop" /\ line_number >= 3
    /\ ClosesBlock(line_number) /\ ClosesBlock(line_number - 1) /\ ClosesBlock(line_number - 2)
    /\ \E t \in Terms : TermOccurs(t, line_number - 1)
    /\ \E t \in Terms : TermOccurs(t, line_number - 2)
    /\ search_options.SEARCH_CONTEXT = 2 /\ context = 2
    /\ messages = <<>> /\ ~match
    /\ (line_number - 1) \in EmittedLines

(***************************************************************************)
(* C22.  Every gap is marked: whenever two blocks emitted one after the    *)
(* other are not adjacent in the source (a block between them was not      *)
(* emitted), exactly one separator line lies between them in the output,   *)
(* for the flush in the loop and for the flush after the loop.  So two     *)
(* log lines next to each other in the output are of one block or of two   *)
(* adjacent blocks, and no separator follows a separator.                  *)
(***************************************************************************)
C22_GapHasOneSeparator ==
    \A j \in 1..(Len(origin) - 1) :
        /\ (origin[j] # 0 /\ origin[j + 1] # 0) =>
               /\ BlockOf(origin[j]) <= BlockOf(origin[j + 1])
               /\ BlockOf(origin[j + 1]) <= BlockOf(origin[j]) + 1
        /\ origin[j] = 0 => origin[j + 1] # 0

\* A gap marked by the flush after the loop, in front of a block of leading
\* context.
C22_Witness ==
    /\ pc = "done" /\ MarkerLines = {}
    /\ search_options.SEARCH_CONTEXT = 1
    /\ \E k \in 2..(Len(origin) - 1) :
          /\ origin[k] = 0
          /\ BlockOf(origin[k + 1]) > BlockOf(origin[k - 1]) + 1
          /\ BlockOf(origin[Len(origin)]) > BlockOf(origin[k + 1])

\* The result of the call on the same source followed by one end of test
\* message.
WithEndOfTest == search(Append(disk, EndLine), search_strings, search_options)

(***************************************************************************)
(* C23.  The end-of-test path and the end-of-input path agree: for a       *)
(* source without the end of test message, line numbers off and            *)
(* SEARCH_CONTEXT >= 0, the call returns the same output as the call on    *)
(* the source followed by one end of test message line.                    *)
(***************************************************************************)
C23_EndOfTestSameAsEndOfFile ==
    ( /\ pc = "done"
      /\ MarkerLines = {}
      /\ ~search_options.SHOW_LINE_NUMBERS
      /\ search_options.SEARCH_CONTEXT >= 0 )
        => text = WithEndOfTest.text

(***************************************************************************)
(* C24.  No source line is emitted more than once: each source line number *)
(* occurs at most once among the log lines of the output, and the output   *)
(* order is strictly increasing, also across a flush in the loop followed  *)
(* by the flush after the loop.                                            *)
(***************************************************************************)
C24_NoLineTwice ==
    \A i, j \in 1..Len(origin) :
        (i < j /\ origin[i] # 0 /\ origin[j] # 0) => origin[i] < origin[j]

\* A flush in the loop was followed by the flush after the loop, which had
\* history to print.
C24_Witness ==
    /\ pc = "done" /\ MarkerLines = {}
    /\ \E k \in 3..(Len(origin) - 2) :
          /\ origin[k] = 0
          /\ BlockOf(origin[k + 1]) < BlockOf(origin[Len(origin)])

(***************************************************************************)
(* C25.  Nothing unrelated is shown: in an inclusive search with           *)
(* SEARCH_CONTEXT = N >= 0, every emitted block either is matched itself   *)
(* (a line contains a string, or it is force-shown) or lies at most N      *)
(* blocks before or at most N blocks after a matched block.                *)
(***************************************************************************)
C25_NothingUnrelated ==
    (pc = "done" /\ ~search_options.SEARCH_EXCLUSIVE) =>
        \A k \in 1..NumBlocks :
            EmittedPart(k) => (OrMatched(k) \/ ForceShown(k) \/ IsContext(k))

\* An inclusive search that printed a block only as context and left out a
\* block further away.
C25_Witness ==
    /\ pc = "done" /\ ~search_options.SEARCH_EXCLUSIVE
    /\ search_options.SEARCH_CONTEXT = 1
    /\ \E k \in 1..NumBlocks :
          ~OrMatched(k) /\ ~ForceShown(k) /\ IsContext(k) /\ EmittedInFull(k)
    /\ \E k \in 1..NumBlocks :
          ~OrMatched(k) /\ ~ForceShown(k) /\ ~IsContext(k) /\ ~EmittedPart(k)

\* The list without the entries that repeat an earlier entry.
RECURSIVE WithoutDuplicates(_)
WithoutDuplicates(strings) ==
    IF strings = <<>> THEN <<>>
    ELSE LET front == WithoutDuplicates(SubSeq(strings, 1, Len(strings) - 1))
             final == strings[Len(strings)]
         IN  IF final \in Range(front) THEN front ELSE Append(front, final)

(***************************************************************************)
(* C26.  In an exclusive search a list of strings with duplicates (equal   *)
(* entries, or entries equal after lower-casing when the search is not     *)
(* case sensitive) gives the same output as the list with the duplicates   *)
(* removed; a block containing every string is still matched.              *)
(***************************************************************************)
C26_DuplicatesIgnored ==
    (pc = "done" /\ search_options.SEARCH_EXCLUSIVE) =>
        /\ text = search(disk, WithoutDuplicates(search_strings), search_options).text
        /\ \A k \in 1..NumBlocks : AndMatched(k) => EmittedInFull(k)

(***************************************************************************)
(* The window before any search: fields are added and removed.             *)
(***************************************************************************)
InitWindow ==
    Called(<<>>, <<>>, Options(FALSE, FALSE, FALSE, FALSE, FALSE, FALSE, 0))

SpecWindow == InitWindow /\ [][NextWindow]_vars

\* The number of search string fields of the window.
Fields == Cardinality(search_string_entries)

(***************************************************************************)
(* C27.  The window keeps 1 to 10 search string fields: from the initial   *)
(* window with one field, after any sequence of add-field actions          *)
(* (possible only while the + button is enabled) and remove-field actions, *)
(* the number of fields is between 1 and 10, and the + button is disabled  *)
(* exactly when there are 10 fields.                                       *)
(***************************************************************************)
C27_OneToTenFields ==
    /\ 1 <= Fields /\ Fields <= 10
    /\ BUTTON_ADD_SEARCH = "disabled" <=> Fields = 10
    /\ search_string_entries = SEARCH_OR \cup {0}

\* Ten fields, reached again after a row was removed.
C27_Witness ==
    /\ Fields = 10
    /\ BUTTON_ADD_SEARCH = "disabled"
    /\ search_frame_next > 10
    /\ 1 \notin SEARCH_OR

====
